---- MODULE Spec2Model ----
(***************************************************************************)
(* A model of the NTP packet parser of ntp-parser (src/src/ntp.rs).        *)
(*                                                                         *)
(* The parsers are pure functions of a byte buffer.  A parser input (a     *)
(* Rust slice &[u8]) is a view [off, len] into the buffer, so that the     *)
(* position of every borrowed slice of the result is known.  A parser      *)
(* result (nom's IResult) is either Ok(rest, val) or Fail(err), where err  *)
(* is "Incomplete" for Err::Incomplete and the ErrorKind's name for        *)
(* Err::Error.                                                             *)
(***************************************************************************)
EXTENDS Integers, Sequences, FiniteSets, TLC

VARIABLES buf, called, res

vars == <<buf, called, res>>

(***************************************************************************)
(* Bounds of the model and program constants.                              *)
(***************************************************************************)
\* longest extension region (bytes between header and MAC) that is enumerated
MaxExt == 8

\* bytes the extension region is drawn from: they give the declared lengths
\* 0, 4, 1024 and 1028
ExtAlphabet == {0, 4}

\* the fixed header is 1 + 3 + 3*4 + 4*8 bytes
HeaderLen == 48

\* NtpMac: u32 key_id + take(16)
MacLen == 20

\* NtpV3Packet.authenticator: take(12)
V3AuthLen == 12

\* NtpMac.mac: take(16)
DigestLen == 16

(***************************************************************************)
(* Slices and nom results.                                                 *)
(***************************************************************************)
Slice(off, len) == [off |-> off, len |-> len]

Bytes(b, s) == SubSeq(b, s.off + 1, s.off + s.len)

Ok(rest, val) == [ok |-> TRUE, rest |-> rest, val |-> val]

Fail(err) == [ok |-> FALSE, err |-> err]

None == [some |-> FALSE]

Some(v) == [some |-> TRUE, v |-> v]

\* big-endian value of a byte sequence
RECURSIVE BE(_)
BE(bs) == IF bs = <<>> THEN 0
          ELSE BE(SubSeq(bs, 1, Len(bs) - 1)) * 256 + bs[Len(bs)]

\* F applied to the value of v, v being evaluated once
With(v, F(_)) == CHOOSE y \in {F(x) : x \in {v}} : TRUE

\* `let (i, x) = p(i)?; ...`: the rest of the parser runs on the result of p
\* when p succeeded, and the error of p is returned otherwise
Bind(r, F(_)) == With(r, LAMBDA x : IF x.ok THEN F(x) ELSE x)

\* nom::bytes::streaming::take(n)
take(b, n, i) ==
    IF i.len < n THEN Fail("Incomplete")
    ELSE Ok(Slice(i.off + n, i.len - n), Slice(i.off, n))

\* a u32 or a u64 is held as its base-65536 digits, most significant first
\* (TLC's integers are narrower than a u32)
RECURSIVE Limbs(_)
Limbs(bs) == IF bs = <<>> THEN <<>>
             ELSE <<BE(SubSeq(bs, 1, 2))>> \o Limbs(SubSeq(bs, 3, Len(bs)))

\* nom::number::streaming::be_u8 / be_u16 (n bytes, n <= 2)
be_uint(b, n, i) ==
    Bind(take(b, n, i), LAMBDA r : Ok(r.rest, BE(Bytes(b, r.val))))

\* nom::number::streaming::be_u32 / be_u64 (n bytes, n = 4 or 8)
be_wide(b, n, i) ==
    Bind(take(b, n, i), LAMBDA r : Ok(r.rest, Limbs(Bytes(b, r.val))))

\* be_u8 of nom::number::complete instead of streaming: Eof on an empty input
be_u8_complete(b, i) ==
    IF i.len < 1 THEN Fail("Eof") ELSE Ok(Slice(i.off + 1, i.len - 1), b[i.off + 1])

be_u8(b, i) == be_uint(b, 1, i)

\* be_i8: the byte reinterpreted as a two's complement i8
be_i8(b, i) ==
    Bind(be_uint(b, 1, i),
         LAMBDA r : Ok(r.rest, IF r.val >= 128 THEN r.val - 256 ELSE r.val))

\* nom::combinator::complete: Err::Incomplete becomes Err::Error(Complete)
complete(r) ==
    With(r, LAMBDA x : IF ~x.ok /\ x.err = "Incomplete" THEN Fail("Complete") ELSE x)

\* nom::combinator::opt applied at input i: Err::Error becomes Ok((i, None))
opt(r, i) ==
    With(r, LAMBDA x : IF x.ok THEN Ok(x.rest, Some(x.val))
                       ELSE IF x.err = "Incomplete" THEN x
                       ELSE Ok(i, None))

NtpMode(v) == v

(***************************************************************************)
(* The fixed header, common to NtpV3Packet and NtpV4Packet.                *)
(***************************************************************************)
NtpHeader_parse(b, i) ==
    Bind(be_u8(b, i), LAMBDA r0 :
    Bind(be_u8(b, r0.rest), LAMBDA r1 :
    Bind(be_i8(b, r1.rest), LAMBDA r2 :
    Bind(be_i8(b, r2.rest), LAMBDA r3 :
    Bind(be_wide(b, 4, r3.rest), LAMBDA r4 :
    Bind(be_wide(b, 4, r4.rest), LAMBDA r5 :
    Bind(be_wide(b, 4, r5.rest), LAMBDA r6 :
    Bind(be_wide(b, 8, r6.rest), LAMBDA r7 :
    Bind(be_wide(b, 8, r7.rest), LAMBDA r8 :
    Bind(be_wide(b, 8, r8.rest), LAMBDA r9 :
    Bind(be_wide(b, 8, r9.rest), LAMBDA r10 :
        Ok(r10.rest,
           [li |-> r0.val \div 64,
            version |-> (r0.val \div 8) % 8,
            mode |-> NtpMode(r0.val % 8),
            stratum |-> r1.val,
            poll |-> r2.val,
            precision |-> r3.val,
            root_delay |-> r4.val,
            root_dispersion |-> r5.val,
            ref_id |-> r6.val,
            ts_ref |-> r7.val,
            ts_orig |-> r8.val,
            ts_recv |-> r9.val,
            ts_xmit |-> r10.val]))))))))))))

(***************************************************************************)
(* NtpV3Packet                                                             *)
(***************************************************************************)
\* the authenticator read without complete(): opt(take(12usize))
NtpV3Packet_authenticator_streaming(b, i) == opt(take(b, V3AuthLen, i), i)

\* #[nom(Parse = "opt(complete(take(12usize)))")]
NtpV3Packet_authenticator(b, i) == opt(complete(take(b, V3AuthLen, i)), i)

NtpV3Packet_parse(b, i) ==
    Bind(NtpHeader_parse(b, i), LAMBDA h :
    Bind(NtpV3Packet_authenticator(b, h.rest), LAMBDA a :
        Ok(a.rest, [hdr |-> h.val, authenticator |-> a.val])))

(***************************************************************************)
(* NtpExtension and NtpMac                                                 *)
(***************************************************************************)
NtpExtension_parse(b, i) ==
    Bind(be_uint(b, 2, i), LAMBDA t :
    Bind(be_uint(b, 2, t.rest), LAMBDA l :
    Bind(take(b, l.val, l.rest), LAMBDA v :
        Ok(v.rest, [field_type |-> t.val, length |-> l.val, value |-> v.val]))))

parse_ntp_extension(b, i) == NtpExtension_parse(b, i)

NtpMac_key_id(b, i) == be_wide(b, 4, i)

NtpMac_parse(b, i) ==
    Bind(NtpMac_key_id(b, i), LAMBDA k :
    Bind(take(b, DigestLen, k.rest), LAMBDA m :
        Ok(m.rest, [key_id |-> k.val, mac |-> m.val])))

(***************************************************************************)
(* try_parse_extensions                                                    *)
(***************************************************************************)
\* the loop of nom::multi::many1 after the first element
RECURSIVE many1_loop(_, _, _)
many1_loop(b, i, acc) ==
    With(complete(parse_ntp_extension(b, i)), LAMBDA r :
        IF ~r.ok /\ r.err = "Incomplete" THEN r
        ELSE IF ~r.ok THEN Ok(i, acc)
        ELSE IF r.rest.len = i.len THEN Fail("Many1")
        ELSE many1_loop(b, r.rest, Append(acc, r.val)))

\* many0 in place of many1: an unreadable first field gives an empty list
many0_extensions(b, i) ==
    With(complete(parse_ntp_extension(b, i)), LAMBDA r :
        IF ~r.ok THEN Ok(i, <<>>)
        ELSE many1_loop(b, r.rest, <<r.val>>))

\* many1(complete(parse_ntp_extension))
many1_extensions(b, i) ==
    Bind(complete(parse_ntp_extension(b, i)), LAMBDA r :
        many1_loop(b, r.rest, <<r.val>>))

\* map_parser(take(n), many1(...)): the second parser runs on the n bytes the
\* first one took, and what it leaves of them is not returned
map_parser_take_many1(b, n, i) ==
    Bind(take(b, n, i), LAMBDA r1 :
    Bind(many1_extensions(b, r1.val), LAMBDA r2 :
        Ok(r1.rest, r2.val)))

\* the extension list read from any non-empty tail shorter than a MAC
try_parse_extensions_short(b, i) ==
    IF i.len = 0 \/ i.len = MacLen THEN Ok(i, <<>>)
    ELSE IF i.len < MacLen THEN many1_extensions(b, i)
    ELSE map_parser_take_many1(b, i.len - MacLen, i)

\* the sub-buffer taken without leaving room for the MAC: take(i.len())
try_parse_extensions_whole(b, i) ==
    IF i.len = 0 \/ i.len = MacLen THEN Ok(i, <<>>)
    ELSE IF i.len < MacLen THEN Fail("Eof")
    ELSE map_parser_take_many1(b, i.len, i)

try_parse_extensions(b, i) ==
    IF i.len = 0 \/ i.len = MacLen THEN Ok(i, <<>>)
    ELSE IF i.len < MacLen THEN Fail("Eof")
    ELSE map_parser_take_many1(b, i.len - MacLen, i)

(***************************************************************************)
(* NtpV4Packet                                                             *)
(***************************************************************************)
\* the MAC never read: Cond(false)
NtpV4Packet_auth_never(b, i) == Ok(i, None)

\* #[nom(Cond(!i.is_empty()))] pub auth: Option<NtpMac>
NtpV4Packet_auth(b, i) ==
    IF i.len # 0
    THEN Bind(NtpMac_parse(b, i), LAMBDA m : Ok(m.rest, Some(m.val)))
    ELSE Ok(i, None)

NtpV4Packet_parse(b, i) ==
    Bind(NtpHeader_parse(b, i), LAMBDA h :
    Bind(try_parse_extensions(b, h.rest), LAMBDA e :
    Bind(NtpV4Packet_auth(b, e.rest), LAMBDA a :
        Ok(a.rest, [hdr |-> h.val, extensions |-> e.val, auth |-> a.val]))))

(***************************************************************************)
(* The public entry points.                                                *)
(***************************************************************************)
parse_ntpv3(b, i) == NtpV3Packet_parse(b, i)

parse_ntpv4(b, i) == NtpV4Packet_parse(b, i)

\* map(P, NtpPacket::V3) and map(P, NtpPacket::V4)
NtpPacket(tag, r) ==
    Bind(r, LAMBDA x : Ok(x.rest, [tag |-> tag, pkt |-> x.val]))

\* the version bits taken without the mask: b0 >> 3
parse_ntp_version_nomask(b0) == b0 \div 8

\* the version bits the dispatch matches on
parse_ntp_version(b0) == (b0 \div 8) % 8

parse_ntp(b, i) ==
    Bind(be_u8(b, i), LAMBDA r0 :
        With(parse_ntp_version(r0.val), LAMBDA v :
            IF v = 3 THEN NtpPacket("V3", NtpV3Packet_parse(b, i))
            ELSE IF v = 4 THEN NtpPacket("V4", NtpV4Packet_parse(b, i))
            ELSE Fail("Tag")))

(***************************************************************************)
(* The inputs: byte buffers a caller can pass.                             *)
(***************************************************************************)
\* bytes 1..47 of NTPV3_REQ (stratum 4, poll 6, precision -11, ...)
HeaderRest ==
    <<4, 6, 245,
      0, 0, 16, 13,
      0, 0, 5, 87,
      130, 220, 24, 24,
      186, 41, 102, 54, 125, 208, 0, 0,
      186, 41, 102, 54, 125, 88, 64, 0,
      186, 41, 102, 54, 125, 208, 0, 0,
      186, 41, 102, 118, 125, 80, 80, 0>>

\* first bytes: every version with li 0 and mode 3, 0xd9 of NTP_REQ1
\* (li 3, version 3, mode 1) and 0xe4 (li 3, version 4, mode 4)
B0Set == {8 * v + 3 : v \in 0..7} \cup {217, 228}

Header(b0) == <<b0>> \o HeaderRest

\* the 16 digest bytes of NTP_REQ2
Digest == <<82, 128, 12, 43, 89, 0, 100, 102, 132, 244, 76, 164, 238, 206, 18, 184>>

KeyIds == {<<0, 0, 0, 1>>, <<0, 0, 0, 16>>, <<1, 2, 3, 4>>}

MacImages == {k \o Digest : k \in KeyIds}

ExtRegions == UNION {[1..k -> ExtAlphabet] : k \in 0..MaxExt}

Tails ==
    ExtRegions
    \cup {SubSeq(m, 1, n) : m \in MacImages, n \in 1..(MacLen - 1)}
    \cup {e \o m : e \in ExtRegions, m \in MacImages}

Inputs ==
    {Header(b0) \o t : b0 \in B0Set, t \in Tails}
    \cup {SubSeq(Header(b0), 1, n) : b0 \in B0Set, n \in 0..(HeaderLen - 1)}
    \cup Tails

Whole(b) == Slice(0, Len(b))

NoResult == Fail("none")

(***************************************************************************)
(* The state machine: one call of one entry point on one buffer.           *)
(***************************************************************************)
Init ==
    /\ buf \in Inputs
    /\ called = "none"
    /\ res = NoResult

Call(name, r) ==
    /\ called = "none"
    /\ called' = name
    /\ res' = r
    /\ UNCHANGED buf

ParseNtp == Call("parse_ntp", parse_ntp(buf, Whole(buf)))

ParseNtpV3 == Call("parse_ntpv3", parse_ntpv3(buf, Whole(buf)))

ParseNtpV4 == Call("parse_ntpv4", parse_ntpv4(buf, Whole(buf)))

ParseNtpExtension == Call("parse_ntp_extension", parse_ntp_extension(buf, Whole(buf)))

Next ==
    \/ ParseNtp
    \/ ParseNtpV3
    \/ ParseNtpV4
    \/ ParseNtpExtension

Spec == Init /\ [][Next]_vars

(***************************************************************************)
(* Properties.                                                             *)
(***************************************************************************)
BufLen == Len(buf)

\* R: the bytes after the 48-byte header
TailLen == Len(buf) - HeaderLen

VersionBits == (buf[1] \div 8) % 8

V4Ok == called = "parse_ntpv4" /\ res.ok

\* the call decodes a version-3 packet: parse_ntpv3, or parse_ntp on version bits 3
V3Call ==
    \/ called = "parse_ntpv3"
    \/ called = "parse_ntp" /\ BufLen >= 1 /\ VersionBits = 3

\* the call decodes a version-4 packet: parse_ntpv4, or parse_ntp on version bits 4
V4Call ==
    \/ called = "parse_ntpv4"
    \/ called = "parse_ntp" /\ BufLen >= 1 /\ VersionBits = 4

\* the packet of a successful result, whichever entry point returned it
Packet == IF called = "parse_ntp" THEN res.val.pkt ELSE res.val

\* the bytes an extension occupies on the wire: its 4-byte header and its value
WireLen(e) == 4 + e.value.len

RECURSIVE SumWireLen(_)
SumWireLen(es) ==
    IF es = <<>> THEN 0 ELSE WireLen(es[1]) + SumWireLen(SubSeq(es, 2, Len(es)))

\* the length a field at buffer offset pos declares
DeclaredLen(pos) == buf[pos + 3] * 256 + buf[pos + 4]

\* some field of the region [pos, end) has a header or a declared length that
\* reaches past end, fields following each other as the parser lays them out
RECURSIVE FieldOverruns(_, _)
FieldOverruns(pos, end) ==
    IF pos = end THEN FALSE
    ELSE IF pos + 4 > end THEN TRUE
    ELSE IF pos + 4 + DeclaredLen(pos) > end THEN TRUE
    ELSE FieldOverruns(pos + 4 + DeclaredLen(pos), end)

\* the first field of the extension region fits in it
FirstFieldFits ==
    /\ HeaderLen + 4 <= BufLen - MacLen
    /\ HeaderLen + 4 + DeclaredLen(HeaderLen) <= BufLen - MacLen

\* C1 (as claimed): after a successful parse_ntpv4 of a buffer of length L,
\* 48 + the wire bytes of the returned extensions + 20 if auth is present = L.
C1_AllBytesAccounted ==
    V4Ok =>
        HeaderLen + SumWireLen(res.val.extensions)
            + (IF res.val.auth.some THEN MacLen ELSE 0) = BufLen

C3_LengthIsTotal ==
    /\ (called = "parse_ntp_extension" /\ res.ok) =>
          /\ res.val.value.len = res.val.length - 4
          /\ BufLen - res.rest.len = res.val.length
    /\ V4Ok =>
          \A k \in 1..Len(res.val.extensions) :
              res.val.extensions[k].value.len = res.val.extensions[k].length - 4

\* C4 (as claimed): parse_ntpv4 with R > 20 fails when any field of the
\* extension region reaches past the end of the R - 20 byte sub-buffer.
C4_OverrunFails ==
    (called = "parse_ntpv4" /\ TailLen > MacLen
        /\ FieldOverruns(HeaderLen, BufLen - MacLen)) => ~res.ok

\* C5 (as claimed): parse_ntpv4 of a buffer with R = 0, R = 20 or R > 20
\* succeeds and returns an empty remainder.
C5_AcceptedTailSucceeds ==
    (called = "parse_ntpv4" /\ (TailLen = 0 \/ TailLen >= MacLen)) =>
        res.ok /\ res.rest.len = 0

\* C5 (amended): parse_ntpv4 of a buffer with R = 0 or R = 20 succeeds; with
\* R > 20 it succeeds exactly when the first extension field fits in the
\* R - 20 byte sub-buffer; every success with such an R returns the empty
\* remainder at the end of the buffer.
C5_AcceptedTailConsumed ==
    (called = "parse_ntpv4" /\ (TailLen = 0 \/ TailLen >= MacLen)) =>
        /\ TailLen \in {0, MacLen} => res.ok
        /\ TailLen > MacLen => (res.ok <=> FirstFieldFits)
        /\ res.ok => res.rest = Slice(BufLen, 0)

C5_Witness ==
    /\ called = "parse_ntpv4"
    /\ TailLen > MacLen
    /\ res.ok
    /\ res.rest = Slice(BufLen, 0)

\* C6: a version-4 decode of a buffer of at least 48 bytes with R in 1..19
\* fails.
C6_ShortTailFails ==
    (V4Call /\ TailLen \in 1..(MacLen - 1)) => ~res.ok

C6_Witness ==
    /\ called = "parse_ntp"
    /\ TailLen = 4
    /\ VersionBits = 4
    /\ ~res.ok
    /\ res.err = "Eof"

\* C7: after a successful parse_ntpv4 the extensions are empty if and only
\* if R is 0 or 20, and with R > 20 there is at least one extension.
C7_ExtensionsEmptyIff ==
    V4Ok =>
        /\ res.val.extensions = <<>> <=> TailLen \in {0, MacLen}
        /\ TailLen > MacLen => Len(res.val.extensions) >= 1

C7_Witness ==
    /\ V4Ok
    /\ TailLen > MacLen
    /\ Len(res.val.extensions) = 2

\* C8: after a successful parse_ntpv4 auth is present if and only if
\* R >= 20; it is the final 20 bytes of the buffer, key_id the big-endian
\* u32 of the first four of them and mac the last 16; no returned extension
\* reaches into those 20 bytes, and an extension comes with a MAC.
C8_AuthIsFinalTwenty ==
    V4Ok =>
        /\ res.val.auth.some <=> TailLen >= MacLen
        /\ res.val.auth.some =>
              /\ res.val.auth.v.mac = Slice(BufLen - DigestLen, DigestLen)
              /\ res.val.auth.v.key_id =
                    << buf[BufLen - 19] * 256 + buf[BufLen - 18],
                       buf[BufLen - 17] * 256 + buf[BufLen - 16] >>
        /\ \A k \in 1..Len(res.val.extensions) :
              /\ res.val.extensions[k].value.off - 4 >= HeaderLen
              /\ res.val.extensions[k].value.off + res.val.extensions[k].value.len
                    <= BufLen - MacLen
        /\ res.val.extensions # <<>> => res.val.auth.some

C8_Witness ==
    /\ V4Ok
    /\ res.val.extensions # <<>>
    /\ res.val.auth.some
    /\ res.val.auth.v.key_id = <<258, 772>>

\* C9: on a non-empty buffer parse_ntp gives the outcome of parse_ntpv3
\* tagged V3 when the version bits of byte 0 are 3, that of parse_ntpv4
\* tagged V4 when they are 4, and the Tag error otherwise; a packet tagged
\* V3 has version 3 and one tagged V4 has version 4.
C9_DispatchOnVersion ==
    (called = "parse_ntp" /\ BufLen >= 1) =>
        /\ VersionBits = 3 => res = NtpPacket("V3", parse_ntpv3(buf, Whole(buf)))
        /\ VersionBits = 4 => res = NtpPacket("V4", parse_ntpv4(buf, Whole(buf)))
        /\ VersionBits \notin {3, 4} => res = Fail("Tag")
        /\ res.ok =>
              /\ res.val.tag \in {"V3", "V4"}
              /\ res.val.tag = "V3" => res.val.pkt.hdr.version = 3
              /\ res.val.tag = "V4" => res.val.pkt.hdr.version = 4

C9_Witness ==
    /\ called = "parse_ntp"
    /\ BufLen >= HeaderLen
    /\ buf[1] = 228
    /\ res.ok
    /\ res.val.tag = "V4"
    /\ res.val.pkt.hdr.version = 4
    /\ res.val.pkt.hdr.li = 3

\* C10 (as claimed): parse_ntp of a buffer of fewer than 48 bytes fails with
\* the truncated-input error, whatever the version bits of byte 0.
C10_ShortIsTruncated ==
    (called = "parse_ntp" /\ BufLen < HeaderLen) =>
        ~res.ok /\ res.err = "Incomplete"

\* C10 (amended): parse_ntp of a buffer of fewer than 48 bytes fails: with
\* the truncated-input error when the buffer is empty or the version bits of
\* byte 0 are 3 or 4, and with the unsupported-version error otherwise.
C10_ShortFails ==
    (called = "parse_ntp" /\ BufLen < HeaderLen) =>
        /\ ~res.ok
        /\ res.err = IF BufLen = 0 \/ VersionBits \in {3, 4}
                     THEN "Incomplete" ELSE "Tag"

C10_Witness ==
    /\ called = "parse_ntp"
    /\ BufLen = 30
    /\ VersionBits = 4
    /\ ~res.ok
    /\ res.err = "Incomplete"

====
